---- MODULE Spec2Model ----
(***************************************************************************)
(* A model of package httpjson (mhilton/httpjson): JSON bodies of HTTP     *)
(* messages, encoded in the character set named by the Content-Type.       *)
(*                                                                         *)
(* Byte strings are sequences of integers 0..255, Go strings holding valid *)
(* UTF-8 are sequences of code points ("runes").  Errors are records with  *)
(* a "type" (the Go type of the error value) and a "msg" (its Error()).    *)
(***************************************************************************)
EXTENDS Integers, Sequences, FiniteSets, TLC

VARIABLES in, pc, req, ret, w, stream, hresp

vars == <<in, pc, req, ret, w, stream, hresp>>

(***************************************************************************)
(* Bounds of the model.                                                    *)
(***************************************************************************)
\* The longest string field S of a marshaled value, in code points.
MaxLen == 2

(***************************************************************************)
(* Error values.                                                           *)
(***************************************************************************)
Err(t, m) == [type |-> t, msg |-> m]

nil == Err("nil", "")

ErrShortDst == Err("transform.ErrShortDst", "transform: short destination buffer")

ErrShortSrc == Err("transform.ErrShortSrc", "transform: short source buffer")

\* internal.RepertoireError(encoding.ASCIISub): the error of an encoder of
\* golang.org/x/text that meets a rune its charset does not include.
RepertoireError == Err("internal.RepertoireError", "encoding: rune not supported by encoding.")

errInvalidName == Err("ianaindex.errInvalidName", "ianaindex: invalid encoding name")

errMarshalUnsupported == Err("*errors.errorString", "marshal: unsupported encoding")

errUnmarshalUnsupported == Err("*errors.errorString", "unmarshal: unsupported encoding")

errUnsupportedType == Err("*json.UnsupportedTypeError", "json: unsupported type: chan int")

errSyntax == Err("*json.SyntaxError", "unexpected end of JSON input")

\* json.quoteChar(c): the byte c as a quoted character; the byte is read
\* as the code point of its value.
quoteChar(c) ==
    <<
       "'\\x00'", "'\\x01'", "'\\x02'", "'\\x03'", "'\\x04'", "'\\x05'", "'\\x06'", "'\\a'",
       "'\\b'", "'\\t'", "'\\n'", "'\\v'", "'\\f'", "'\\r'", "'\\x0e'", "'\\x0f'",
       "'\\x10'", "'\\x11'", "'\\x12'", "'\\x13'", "'\\x14'", "'\\x15'", "'\\x16'", "'\\x17'",
       "'\\x18'", "'\\x19'", "'\\x1a'", "'\\x1b'", "'\\x1c'", "'\\x1d'", "'\\x1e'", "'\\x1f'",
       "' '", "'!'", "'\"'", "'#'", "'$'", "'%'", "'&'", "'\\''",
       "'('", "')'", "'*'", "'+'", "','", "'-'", "'.'", "'/'",
       "'0'", "'1'", "'2'", "'3'", "'4'", "'5'", "'6'", "'7'",
       "'8'", "'9'", "':'", "';'", "'<'", "'='", "'>'", "'?'",
       "'@'", "'A'", "'B'", "'C'", "'D'", "'E'", "'F'", "'G'",
       "'H'", "'I'", "'J'", "'K'", "'L'", "'M'", "'N'", "'O'",
       "'P'", "'Q'", "'R'", "'S'", "'T'", "'U'", "'V'", "'W'",
       "'X'", "'Y'", "'Z'", "'['", "'\\\\'", "']'", "'^'", "'_'",
       "'`'", "'a'", "'b'", "'c'", "'d'", "'e'", "'f'", "'g'",
       "'h'", "'i'", "'j'", "'k'", "'l'", "'m'", "'n'", "'o'",
       "'p'", "'q'", "'r'", "'s'", "'t'", "'u'", "'v'", "'w'",
       "'x'", "'y'", "'z'", "'{'", "'|'", "'}'", "'~'", "'\\x7f'",
       "'\\u0080'", "'\\u0081'", "'\\u0082'", "'\\u0083'", "'\\u0084'", "'\\u0085'", "'\\u0086'", "'\\u0087'",
       "'\\u0088'", "'\\u0089'", "'\\u008a'", "'\\u008b'", "'\\u008c'", "'\\u008d'", "'\\u008e'", "'\\u008f'",
       "'\\u0090'", "'\\u0091'", "'\\u0092'", "'\\u0093'", "'\\u0094'", "'\\u0095'", "'\\u0096'", "'\\u0097'",
       "'\\u0098'", "'\\u0099'", "'\\u009a'", "'\\u009b'", "'\\u009c'", "'\\u009d'", "'\\u009e'", "'\\u009f'",
       "'\\u00a0'", "'¡'", "'¢'", "'£'", "'¤'", "'¥'", "'¦'", "'§'",
       "'¨'", "'©'", "'ª'", "'«'", "'¬'", "'\\u00ad'", "'®'", "'¯'",
       "'°'", "'±'", "'²'", "'³'", "'´'", "'µ'", "'¶'", "'·'",
       "'¸'", "'¹'", "'º'", "'»'", "'¼'", "'½'", "'¾'", "'¿'",
       "'À'", "'Á'", "'Â'", "'Ã'", "'Ä'", "'Å'", "'Æ'", "'Ç'",
       "'È'", "'É'", "'Ê'", "'Ë'", "'Ì'", "'Í'", "'Î'", "'Ï'",
       "'Ð'", "'Ñ'", "'Ò'", "'Ó'", "'Ô'", "'Õ'", "'Ö'", "'×'",
       "'Ø'", "'Ù'", "'Ú'", "'Û'", "'Ü'", "'Ý'", "'Þ'", "'ß'",
       "'à'", "'á'", "'â'", "'ã'", "'ä'", "'å'", "'æ'", "'ç'",
       "'è'", "'é'", "'ê'", "'ë'", "'ì'", "'í'", "'î'", "'ï'",
       "'ð'", "'ñ'", "'ò'", "'ó'", "'ô'", "'õ'", "'ö'", "'÷'",
       "'ø'", "'ù'", "'ú'", "'û'", "'ü'", "'ý'", "'þ'", "'ÿ'"
    >>[c + 1]

\* The *json.SyntaxError of the scanner for the byte c.
SyntaxError(c, context) ==
    Err("*json.SyntaxError", "invalid character " \o quoteChar(c) \o " " \o context)

\* A document of a kind the model has none of: a top-level string, array,
\* true or false, a number with a sign, a fraction or an exponent, or an
\* object with a member that is no string.
errNoSuchDocument == Err("model", "document outside the model")

errRead == Err("*errors.errorString", "test error")

errURL == Err("*url.Error", "parse \":::\": missing protocol scheme")

errTransport == Err("*url.Error", "connection refused")

errWrite == Err("io", "write failed")

\* fmt.Errorf("unsupported Content-Type %q", contentType): %q puts the
\* value in double quotes, with a backslash before each double quote within.
errBadContentType(contentType) ==
    Err("*errors.errorString",
        "unsupported Content-Type "
        \o (IF contentType = "application/json;charset=\"ebcdic\""
            THEN "\"application/json;charset=\\\"ebcdic\\\"\""
            ELSE "\"" \o contentType \o "\""))

\* The interface test err.(replacementError): the error has a method
\* Replacement() byte.
replacementError(err) == err.type = "internal.RepertoireError"

(***************************************************************************)
(* UTF-8 (package unicode/utf8).                                           *)
(***************************************************************************)
RuneError == 65533

\* utf8.EncodeRune for a valid code point.
EncodeRune(r) ==
    IF r < 128 THEN <<r>>
    ELSE IF r < 2048 THEN <<192 + (r \div 64), 128 + (r % 64)>>
    ELSE IF r < 65536 THEN
        <<224 + (r \div 4096), 128 + ((r \div 64) % 64), 128 + (r % 64)>>
    ELSE <<240 + (r \div 262144), 128 + ((r \div 4096) % 64),
           128 + ((r \div 64) % 64), 128 + (r % 64)>>

\* The size of the sequence a first byte announces; 1 for a byte that
\* starts no sequence (utf8.first[p0] & 7).
FirstSize(b) ==
    IF b < 128 THEN 1
    ELSE IF b < 194 THEN 1
    ELSE IF b < 224 THEN 2
    ELSE IF b < 240 THEN 3
    ELSE IF b < 245 THEN 4
    ELSE 1

\* A byte that can start a sequence (utf8.first[p0] # xx).
FirstValid(b) == b < 128 \/ (b >= 194 /\ b < 245)

\* The accepted range of the second byte (utf8.acceptRanges).
AcceptLo(b) == IF b = 224 THEN 160 ELSE IF b = 240 THEN 144 ELSE 128

AcceptHi(b) == IF b = 237 THEN 159 ELSE IF b = 244 THEN 143 ELSE 191

Cont(b) == b >= 128 /\ b <= 191

\* utf8.DecodeRune: the rune at the head of p and its width;
\* (RuneError, 0) for empty p, (RuneError, 1) for an invalid or incomplete
\* sequence.
DecodeRune(p) ==
    LET n == Len(p)
        bad == [r |-> RuneError, size |-> 1]
    IN IF n < 1 THEN [r |-> RuneError, size |-> 0]
       ELSE IF p[1] < 128 THEN [r |-> p[1], size |-> 1]
       ELSE IF ~FirstValid(p[1]) THEN bad
       ELSE IF n < FirstSize(p[1]) THEN bad
       ELSE IF p[2] < AcceptLo(p[1]) \/ AcceptHi(p[1]) < p[2] THEN bad
       ELSE IF FirstSize(p[1]) = 2 THEN
           [r |-> (p[1] % 32) * 64 + (p[2] % 64), size |-> 2]
       ELSE IF ~Cont(p[3]) THEN bad
       ELSE IF FirstSize(p[1]) = 3 THEN
           [r |-> (p[1] % 16) * 4096 + (p[2] % 64) * 64 + (p[3] % 64), size |-> 3]
       ELSE IF ~Cont(p[4]) THEN bad
       ELSE [r |-> (p[1] % 8) * 262144 + (p[2] % 64) * 4096
                   + (p[3] % 64) * 64 + (p[4] % 64), size |-> 4]

\* utf8.FullRune: p begins with a whole encoding of a rune; an invalid
\* encoding counts as a whole (error) rune of width 1.
FullRune(p) ==
    LET n == Len(p)
    IN IF n = 0 THEN FALSE
       ELSE IF n >= FirstSize(p[1]) THEN TRUE
       ELSE IF n > 1 /\ (p[2] < AcceptLo(p[1]) \/ AcceptHi(p[1]) < p[2]) THEN TRUE
       ELSE IF n > 2 /\ ~Cont(p[3]) THEN TRUE
       ELSE FALSE

\* The bytes of a string of code points.
RECURSIVE Utf8(_)
Utf8(s) ==
    IF s = <<>> THEN <<>>
    ELSE IF Len(s) = 1 THEN EncodeRune(s[1])
    ELSE Utf8(SubSeq(s, 1, Len(s) \div 2)) \o Utf8(SubSeq(s, (Len(s) \div 2) + 1, Len(s)))

\* The code points of a byte string, U+FFFD for each byte no rune starts at.
RECURSIVE Runes(_)
Runes(b) ==
    IF b = <<>> THEN <<>>
    ELSE LET d == DecodeRune(b)
         IN <<d.r>> \o Runes(SubSeq(b, d.size + 1, Len(b)))

\* b[i:], with i counted from 0 as in Go.
From(b, i) == SubSeq(b, i + 1, Len(b))

(***************************************************************************)
(* The JSON escape of a rune.                                              *)
(***************************************************************************)
\* hexDigits[n]: the ASCII code of the lowercase hex digit n.
hexDigits(n) == IF n < 10 THEN 48 + n ELSE 87 + n

\* escape(b, r): the six bytes written to b.
escape(r) ==
    <<92, 117, hexDigits(r \div 4096), hexDigits((r \div 256) % 16),
      hexDigits((r \div 16) % 16), hexDigits(r % 16)>>

\* utf16.EncodeRune for a rune at or above 0x10000.
utf16EncodeRune(r) ==
    [r1 |-> 55296 + (((r - 65536) \div 1024) % 1024),
     r2 |-> 56320 + ((r - 65536) % 1024)]

\* The buffer buf that Transform fills for the rune r at the cursor.
escapeBuf(r) ==
    IF r < 65536 THEN escape(r)
    ELSE escape(utf16EncodeRune(r).r1) \o escape(utf16EncodeRune(r).r2)

(***************************************************************************)
(* The charset registry and the encoders and decoders it hands out         *)
(* (golang.org/x/text/encoding/ianaindex, .../charmap).  An encoder is     *)
(* named by its charset: "ascii" (ianaindex's US-ASCII) or "latin1"        *)
(* (charmap.ISO8859_1).  A destination buffer is modelled by its capacity, *)
(* a Transform result by the bytes written, the count of source bytes      *)
(* consumed and the error.                                                 *)
(***************************************************************************)
TR(out, nSrc, err) == [out |-> out, nSrc |-> nSrc, err |-> err]

\* strings.ToLower on the charset names of the model.
ToLower(name) ==
    CASE name = "UTF-8" -> "utf-8"
      [] name = "US-ASCII" -> "us-ascii"
      [] name = "ISO-8859-1" -> "iso-8859-1"
      [] OTHER -> name

\* strings.EqualFold(a, b), for b in lower case.
EqualFold(a, b) == ToLower(a) = b

\* ianaindex.MIME.Encoding(name): an error for a name that is no IANA
\* charset, a nil encoding for a registered charset without implementation.
Encoding(name) ==
    CASE ToLower(name) = "us-ascii" -> [enc |-> "ascii", err |-> nil]
      [] ToLower(name) = "iso-8859-1" -> [enc |-> "latin1", err |-> nil]
      [] ToLower(name) = "utf-8" -> [enc |-> "utf8", err |-> nil]
      [] name = "OSD_EBCDIC_DF03_IRV" -> [enc |-> "nil", err |-> nil]
      [] OTHER -> [enc |-> "nil", err |-> errInvalidName]

\* The runes a charset includes.
Representable(e, r) ==
    CASE e = "ascii" -> r <= 127
      [] e = "latin1" -> r <= 255
      [] OTHER -> TRUE

\* asciiEncoder.Transform: copies bytes up to the first one above
\* unicode.MaxASCII, which it reports before it looks at the room left in dst.
RECURSIVE asciiEncode(_, _, _, _)
asciiEncode(cap, src, nSrc, out) ==
    IF nSrc >= Len(src) THEN TR(out, nSrc, nil)
    ELSE IF src[nSrc + 1] > 127 THEN TR(out, nSrc, RepertoireError)
    ELSE IF Len(out) >= cap THEN TR(out, nSrc, ErrShortDst)
    ELSE asciiEncode(cap, src, nSrc + 1, Append(out, src[nSrc + 1]))

\* charmapEncoder.Transform of charmap.ISO8859_1: looks at the room left
\* in dst first, then decodes one rune and looks it up.
RECURSIVE charmapEncode(_, _, _, _, _)

charmapEncodeRune(cap, src, atEOF, nSrc, out, d) ==
    IF d.size = 1 THEN
        IF ~atEOF /\ ~FullRune(From(src, nSrc))
        THEN TR(out, nSrc, ErrShortSrc)
        ELSE TR(out, nSrc, RepertoireError)
    ELSE IF d.r <= 255 THEN
        charmapEncode(cap, src, atEOF, nSrc + d.size, Append(out, d.r))
    ELSE TR(out, nSrc, RepertoireError)

charmapEncode(cap, src, atEOF, nSrc, out) ==
    IF nSrc >= Len(src) THEN TR(out, nSrc, nil)
    ELSE IF Len(out) >= cap THEN TR(out, nSrc, ErrShortDst)
    ELSE IF src[nSrc + 1] < 128 THEN
        charmapEncode(cap, src, atEOF, nSrc + 1, Append(out, src[nSrc + 1]))
    ELSE charmapEncodeRune(cap, src, atEOF, nSrc, out, DecodeRune(From(src, nSrc)))

\* t.e.Transformer.Transform(dst, src, atEOF) of the encoder e.
EncTransform(e, cap, src, atEOF) ==
    IF e = "ascii" THEN asciiEncode(cap, src, 0, <<>>)
    ELSE charmapEncode(cap, src, atEOF, 0, <<>>)

\* enc.NewDecoder().Bytes(buf): the decoders replace a byte that is no
\* character of the charset by U+FFFD and report no error.  Each byte is
\* decoded by itself, so the two halves of buf are decoded one after the
\* other.
RECURSIVE DecodeBytes(_, _)
DecodeBytes(e, buf) ==
    IF buf = <<>> THEN <<>>
    ELSE IF Len(buf) = 1 THEN
        (IF e = "ascii" /\ buf[1] > 127 THEN EncodeRune(RuneError)
         ELSE IF e = "utf8" THEN <<buf[1]>>
         ELSE EncodeRune(buf[1]))
    ELSE DecodeBytes(e, SubSeq(buf, 1, Len(buf) \div 2))
         \o DecodeBytes(e, SubSeq(buf, (Len(buf) \div 2) + 1, Len(buf)))

(***************************************************************************)
(* jsonTransformer.Transform.                                              *)
(***************************************************************************)
\* The test that sends Transform to its "short source" return.
IsRuneErrorNoBytes(d) == d.r = RuneError /\ d.size = 0

IsRuneError(d) == d.r = RuneError


RECURSIVE TransformLoop(_, _, _, _, _, _)

\* The end of a turn of the loop without the count of the escape's bytes.
AfterEscapeDropCount(e, cap, src, atEOF, out, nSrc, d, t2) ==
    IF t2.err # nil THEN TR(out, nSrc, t2.err)
    ELSE TransformLoop(e, cap, src, atEOF, out, nSrc + d.size)

\* The end of a turn of the loop with the bytes of an escape that did not
\* fit counted in nDst.
AfterEscapeCountPartial(e, cap, src, atEOF, out, nSrc, d, t2) ==
    IF t2.err # nil THEN TR(out \o t2.out, nSrc, t2.err)
    ELSE TransformLoop(e, cap, src, atEOF, out \o t2.out, nSrc + d.size)

\* The end of a turn of the loop: t2 is what the encoder returned for the
\* escape of the rune d at the cursors (Len(out), nSrc).
AfterEscape(e, cap, src, atEOF, out, nSrc, d, t2) ==
    IF t2.err # nil THEN TR(out, nSrc, t2.err)
    ELSE TransformLoop(e, cap, src, atEOF, out \o t2.out, nSrc + d.size)

\* The rune d decoded at the cursor is escaped, unless it is RuneError.
EscapeAt(e, cap, src, atEOF, out, nSrc, d) ==
    IF IsRuneError(d) THEN TR(out, nSrc, ErrShortSrc)
    ELSE AfterEscape(e, cap, src, atEOF, out, nSrc, d,
                     EncTransform(e, cap - Len(out), escapeBuf(d.r), FALSE))

\* The start of a turn of the loop: t1 is what the encoder returned for
\* the input at the cursors (Len(out), nSrc).
AfterEncode(e, cap, src, atEOF, out, nSrc, t1) ==
    IF ~replacementError(t1.err) THEN TR(out \o t1.out, nSrc + t1.nSrc, t1.err)
    ELSE EscapeAt(e, cap, src, atEOF, out \o t1.out, nSrc + t1.nSrc,
                  DecodeRune(From(src, nSrc + t1.nSrc)))

\* The loop of Transform from the cursors (nDst, nSrc) = (Len(out), nSrc).
TransformLoop(e, cap, src, atEOF, out, nSrc) ==
    AfterEncode(e, cap, src, atEOF, out, nSrc,
                EncTransform(e, cap - Len(out), From(src, nSrc), atEOF))

Transform(e, cap, src, atEOF) == TransformLoop(e, cap, src, atEOF, <<>>, 0)

\* A caller that drives Transform over input that arrives in chunks: src
\* is the whole input, of which "fed" bytes have arrived and nSrc are
\* consumed, out is all the output so far, "last" the last call of Transform
\* and the bytes carried over into it.
NoCall ==
    [carried |-> <<>>, src |-> <<>>, atEOF |-> FALSE, cap |-> 0, res |-> TR(<<>>, 0, nil)]

NoStream ==
    [e |-> "none", src |-> <<>>, fed |-> 0, nSrc |-> 0, out |-> <<>>, called |-> FALSE,
     last |-> NoCall]

NewStream(e, src) == [NoStream EXCEPT !.e = e, !.src = src]

\* Transform has returned res for the call (buf, atEOF) into a dst of
\* length cap, after n more bytes arrived: the caller keeps the output and
\* carries buf[res.nSrc:] over to the next call.
StreamReturned(s, n, cap, buf, atEOF, res) ==
    [s EXCEPT !.fed = @ + n, !.nSrc = @ + res.nSrc, !.out = @ \o res.out,
              !.called = TRUE,
              !.last = [carried |-> SubSeq(s.src, s.nSrc + 1, s.fed), src |-> buf,
                        atEOF |-> atEOF, cap |-> cap, res |-> res]]

StreamCalls(s, n, cap, buf, atEOF) ==
    StreamReturned(s, n, cap, buf, atEOF, Transform(s.e, cap, buf, atEOF))

\* The next call: on the bytes carried over and the n that arrive, at
\* end of input when all of the input has arrived.
StreamCall(s, n, cap) ==
    StreamCalls(s, n, cap, SubSeq(s.src, s.nSrc + 1, s.fed + n), s.fed + n = Len(s.src))

\* The caller is done when all of the input has arrived and the last call
\* did not ask for more room in dst.
StreamDone(s) == s.called /\ s.fed = Len(s.src) /\ s.last.res.err # ErrShortDst

\* transform.grow: the length of the buffer that replaces one of length m.
grow(m) == IF m <= 32 THEN 64 ELSE IF m <= 256 THEN m * 2 ELSE m + (m \div 2)

\* transform.Bytes (doAppend): Transform at end of input, into a buffer
\* that starts as long as src and grows on every short destination.
RECURSIVE doAppend(_, _, _, _, _)

doAppendStep(e, cap, out, src, pSrc, t) ==
    IF t.err # ErrShortDst THEN TR(out \o t.out, pSrc + t.nSrc, t.err)
    ELSE doAppend(e, grow(cap), out \o t.out, src, pSrc + t.nSrc)

doAppend(e, cap, out, src, pSrc) ==
    doAppendStep(e, cap, out, src, pSrc, Transform(e, cap - Len(out), From(src, pSrc), TRUE))

\* encoder.Bytes(buf) of the Encoder wrapping the jsonTransformer.
EncoderBytes(e, buf) == doAppend(e, Len(buf), <<>>, buf, 0)

(***************************************************************************)
(* encoding/json on the values of the model: nil, a value json cannot      *)
(* serialize (a struct with a chan field), and testValue{S: s}.            *)
(***************************************************************************)
Alphabet == {97, 34, 92, 60, 163, 9786, 65533, 128514}

RECURSIVE SeqsUpTo(_, _)
SeqsUpTo(S, n) ==
    IF n = 0 THEN {<<>>}
    ELSE LET shorter == SeqsUpTo(S, n - 1)
         IN shorter \cup {Append(s, x) : s \in {t \in shorter : Len(t) = n - 1}, x \in S}

NilValue == [kind |-> "nil", S |-> <<>>]

ChanValue == [kind |-> "chan", S |-> <<>>]

TestValue(s) == [kind |-> "testValue", S |-> s]

\* {"s":"
ObjOpen == <<123, 34, 115, 34, 58, 34>>

\* "}
ObjClose == <<34, 125>>

\* The bytes encoding/json writes for one rune of a string (HTML escaping
\* on; the runes \b and \f are outside the model's alphabet).
jsonRune(r) ==
    IF r = 34 \/ r = 92 THEN <<92, r>>
    ELSE IF r = 10 THEN <<92, 110>>
    ELSE IF r = 13 THEN <<92, 114>>
    ELSE IF r = 9 THEN <<92, 116>>
    ELSE IF r < 32 \/ r = 60 \/ r = 62 \/ r = 38 \/ r = 8232 \/ r = 8233 THEN escape(r)
    ELSE EncodeRune(r)

RECURSIVE jsonString(_)
jsonString(s) == IF s = <<>> THEN <<>> ELSE jsonRune(Head(s)) \o jsonString(Tail(s))

\* json.Marshal(v).
jsonMarshal(v) ==
    CASE v.kind = "chan" -> [buf |-> <<>>, err |-> errUnsupportedType]
      [] v.kind = "nil" -> [buf |-> <<110, 117, 108, 108>>, err |-> nil]
      [] OTHER -> [buf |-> ObjOpen \o jsonString(v.S) \o ObjClose, err |-> nil]

\* The value of a hex digit, -1 for any other byte.
HexVal(c) ==
    IF c >= 48 /\ c <= 57 THEN c - 48
    ELSE IF c >= 97 /\ c <= 102 THEN c - 87
    ELSE IF c >= 65 /\ c <= 70 THEN c - 55
    ELSE -1

\* json.getu4: the rune of the escape \uXXXX at b[i:], -1 if there is none.
getu4(b, i) ==
    IF Len(b) < i + 6 \/ b[i + 1] # 92 \/ b[i + 2] # 117 THEN -1
    ELSE IF \E k \in 3..6 : HexVal(b[i + k]) < 0 THEN -1
    ELSE HexVal(b[i + 3]) * 4096 + HexVal(b[i + 4]) * 256
         + HexVal(b[i + 5]) * 16 + HexVal(b[i + 6])

\* utf16.DecodeRune: the rune of a surrogate pair, U+FFFD for no pair.
utf16DecodeRune(r1, r2) ==
    IF r1 >= 55296 /\ r1 < 56320 /\ r2 >= 56320 /\ r2 < 57344
    THEN (r1 - 55296) * 1024 + (r2 - 56320) + 65536
    ELSE RuneError

\* The string literal whose first character is at b[i:] (after its opening
\* quote): its runes and the index after its closing quote (json.unquote),
\* or the error of the scanner at the first byte it does not accept.  At the
\* end of the input the scanner is stepped with a space (scanner.eof), which
\* a string accepts and an escape does not.
RECURSIVE parseString(_, _, _)

BadString(err) == [ok |-> FALSE, s |-> <<>>, next |-> 0, err |-> err]

\* The error of the scanner in the four hex digits of the escape \u at
\* b[i:]: the first of them that is in b and is no hex digit; at the end of
\* the input within them the scanner is stepped with a space (scanner.eof),
\* which is no hex digit.
badHexError(b, i) ==
    IF \E k \in 3..6 : i + k <= Len(b) /\ HexVal(b[i + k]) < 0
    THEN SyntaxError(b[i + (CHOOSE k \in 3..6 :
                                /\ i + k <= Len(b) /\ HexVal(b[i + k]) < 0
                                /\ \A j \in 3..(k - 1) : HexVal(b[i + j]) >= 0)],
                     "in \\u hexadecimal character escape")
    ELSE SyntaxError(32, "in \\u hexadecimal character escape")

\* The escape \uXXXX of the unit u at b[i:], u2 the unit of an escape
\* that follows it (-1 for none).
parseUnicodeEscape(b, i, acc, u, u2) ==
    IF u < 0 THEN BadString(badHexError(b, i))
    ELSE IF (u < 55296 \/ u >= 57344) THEN parseString(b, i + 6, Append(acc, u))
    ELSE IF u2 >= 0 /\ utf16DecodeRune(u, u2) # RuneError
    THEN parseString(b, i + 12, Append(acc, utf16DecodeRune(u, u2)))
    ELSE parseString(b, i + 6, Append(acc, RuneError))

\* The escape whose backslash is at b[i:], c the byte after it.
parseEscape(b, i, acc, c) ==
    IF c \in {34, 92, 47} THEN parseString(b, i + 2, Append(acc, c))
    ELSE IF c = 110 THEN parseString(b, i + 2, Append(acc, 10))
    ELSE IF c = 114 THEN parseString(b, i + 2, Append(acc, 13))
    ELSE IF c = 116 THEN parseString(b, i + 2, Append(acc, 9))
    ELSE IF c = 98 THEN parseString(b, i + 2, Append(acc, 8))
    ELSE IF c = 102 THEN parseString(b, i + 2, Append(acc, 12))
    ELSE IF c # 117 THEN BadString(SyntaxError(c, "in string escape code"))
    ELSE parseUnicodeEscape(b, i, acc, getu4(b, i), getu4(b, i + 6))

parseRune(b, i, acc, d) == parseString(b, i + d.size, Append(acc, d.r))

parseString(b, i, acc) ==
    IF i >= Len(b) THEN BadString(errSyntax)
    ELSE IF b[i + 1] = 34 THEN [ok |-> TRUE, s |-> acc, next |-> i + 1, err |-> nil]
    ELSE IF b[i + 1] < 32 THEN BadString(SyntaxError(b[i + 1], "in string literal"))
    ELSE IF b[i + 1] = 92 THEN
        IF i + 1 >= Len(b) THEN BadString(SyntaxError(32, "in string escape code"))
        ELSE parseEscape(b, i, acc, b[i + 2])
    ELSE parseRune(b, i, acc, DecodeRune(From(b, i)))

\* json.Unmarshal(buf, &v) for v a testValue: the scanner checks all of
\* the document first, then the members of an object are stored.  v is
\* "untouched" when nothing was stored.
Untouched == [kind |-> "untouched", S |-> <<>>]

JSONResult(v, err) == [v |-> v, err |-> err]

\* The index of the first byte of b[i:] that is no white space of JSON.
RECURSIVE skipSpace(_, _)
skipSpace(b, i) ==
    IF i < Len(b) /\ b[i + 1] \in {32, 9, 13, 10} THEN skipSpace(b, i + 1) ELSE i

\* The index of the first byte of b[i:] that is no digit.
RECURSIVE skipDigits(_, _)
skipDigits(b, i) ==
    IF i < Len(b) /\ b[i + 1] \in 48..57 THEN skipDigits(b, i + 1) ELSE i

\* The top-level value has ended before b[i:], which starts with no white
\* space; r is what its decoding gives.
endTop(b, i, r) ==
    IF i >= Len(b) THEN r
    ELSE JSONResult(Untouched, SyntaxError(b[i + 1], "after top-level value"))

RECURSIVE objectKey(_, _, _)

\* After a member of the object, at b[i:]; v is the value stored so far.
objectNext(b, i, v) ==
    IF i >= Len(b) THEN JSONResult(Untouched, errSyntax)
    ELSE IF b[i + 1] = 125 THEN endTop(b, skipSpace(b, i + 1), JSONResult(v, nil))
    ELSE IF b[i + 1] = 44 THEN objectKey(b, skipSpace(b, i + 1), v)
    ELSE JSONResult(Untouched, SyntaxError(b[i + 1], "after object key:value pair"))

\* The member key : str; the field S has the name "s", matched under
\* Unicode case folding: s, S and U+017F.
objectMember(b, v, key, str) ==
    IF ~str.ok THEN JSONResult(Untouched, str.err)
    ELSE objectNext(b, skipSpace(b, str.next),
                    IF key.s \in {<<115>>, <<83>>, <<383>>} THEN TestValue(str.s) ELSE v)

\* The value of the member key, at b[i:].
objectValue(b, i, v, key) ==
    IF i >= Len(b) THEN JSONResult(Untouched, errSyntax)
    ELSE IF b[i + 1] = 34 THEN objectMember(b, v, key, parseString(b, i + 1, <<>>))
    ELSE IF b[i + 1] \in {34, 45, 91, 102, 110, 116, 123} \cup (48..57) THEN JSONResult(Untouched, errNoSuchDocument)
    ELSE JSONResult(Untouched, SyntaxError(b[i + 1], "looking for beginning of value"))

\* The colon after the member key, at b[i:].
objectColon(b, i, v, key) ==
    IF i >= Len(b) THEN JSONResult(Untouched, errSyntax)
    ELSE IF b[i + 1] # 58
    THEN JSONResult(Untouched, SyntaxError(b[i + 1], "after object key"))
    ELSE objectValue(b, skipSpace(b, i + 1), v, key)

objectKeyParsed(b, v, key) ==
    IF ~key.ok THEN JSONResult(Untouched, key.err)
    ELSE objectColon(b, skipSpace(b, key.next), v, key)

\* The key of a member, at b[i:].
objectKey(b, i, v) ==
    IF i >= Len(b) THEN JSONResult(Untouched, errSyntax)
    ELSE IF b[i + 1] # 34
    THEN JSONResult(Untouched,
                    SyntaxError(b[i + 1], "looking for beginning of object key string"))
    ELSE objectKeyParsed(b, v, parseString(b, i + 1, <<>>))

\* After the { of an object, at b[i:].
objectOpen(b, i) ==
    IF i < Len(b) /\ b[i + 1] = 125
    THEN endTop(b, skipSpace(b, i + 1), JSONResult(Untouched, nil))
    ELSE objectKey(b, i, Untouched)

\* The byte the scanner is stepped with at b[i:]: a space at the end of the
\* input (scanner.eof).
byteOrEOF(b, i) == IF i < Len(b) THEN b[i + 1] ELSE 32

\* The literal null, whose n is at b[i:]; it stores nothing.
literalNull(b, i) ==
    IF byteOrEOF(b, i + 1) # 117
    THEN JSONResult(Untouched,
                    SyntaxError(byteOrEOF(b, i + 1), "in literal null (expecting 'u')"))
    ELSE IF byteOrEOF(b, i + 2) # 108
    THEN JSONResult(Untouched,
                    SyntaxError(byteOrEOF(b, i + 2), "in literal null (expecting 'l')"))
    ELSE IF byteOrEOF(b, i + 3) # 108
    THEN JSONResult(Untouched,
                    SyntaxError(byteOrEOF(b, i + 3), "in literal null (expecting 'l')"))
    ELSE endTop(b, skipSpace(b, i + 4), JSONResult(Untouched, nil))

\* A number of digits alone has ended before b[i:]: a number cannot be
\* stored in a testValue (*json.UnmarshalTypeError).
numberEnd(b, i) ==
    IF i < Len(b) /\ b[i + 1] \in {46, 69, 101}
    THEN JSONResult(Untouched, errNoSuchDocument)
    ELSE endTop(b, skipSpace(b, i),
                JSONResult(Untouched,
                           Err("*json.UnmarshalTypeError",
                               "json: cannot unmarshal number into Go value of type httpjson_test.testValue")))

\* The top-level value, at b[i:].
beginValue(b, i) ==
    IF i >= Len(b) THEN JSONResult(Untouched, errSyntax)
    ELSE IF b[i + 1] = 123 THEN objectOpen(b, skipSpace(b, i + 1))
    ELSE IF b[i + 1] = 48 THEN numberEnd(b, i + 1)
    ELSE IF b[i + 1] \in 49..57 THEN numberEnd(b, skipDigits(b, i + 1))
    ELSE IF b[i + 1] = 110 THEN literalNull(b, i)
    ELSE IF b[i + 1] \in {34, 45, 91, 102, 110, 116, 123} \cup (48..57) THEN JSONResult(Untouched, errNoSuchDocument)
    ELSE JSONResult(Untouched, SyntaxError(b[i + 1], "looking for beginning of value"))

jsonUnmarshal(buf) == beginValue(buf, skipSpace(buf, 0))

(***************************************************************************)
(* mime.ParseMediaType on the Content-Type values of the model.            *)
(***************************************************************************)
DefaultContentType == "application/json;charset=utf-8"

JSONContentTypes ==
    {"application/json",
     "application/json;charset=utf-8",
     "application/json;charset=UTF-8",
     "application/json;charset=us-ascii",
     "application/json;charset=iso-8859-1",
     "application/json;charset=no-such",
     "application/json;charset=OSD_EBCDIC_DF03_IRV"}

\* The Content-Types of the tests that are in no other set.
TestContentTypes ==
    {"application/something+json", "application/json;charset=\"ebcdic\"",
     "application/json;charset=not-known", "application/json;charset=made-up",
     "x-application/test;charset=utf-8"}

\* "application/json;charset" has a parameter without a value.
ContentTypes ==
    JSONContentTypes \cup
    {"", "application/json;charset", "text/plain", "text/plain; charset=utf-8",
     "text/plain;charset=iso-8859-1", "text/plain;charset=no-such",
     "text/plain;charset=OSD_EBCDIC_DF03_IRV", "application/problem+json", "text/json"}
    \cup TestContentTypes

\* mime.ParseMediaType on the Content-Types of the model: the media type,
\* the charset parameter ("" when there is none) and whether the value
\* parsed without error.  The empty value and a parameter without a value
\* do not parse.
ParseMediaType(ct) ==
    CASE ct = "application/json" -> [mt |-> "application/json", charset |-> "", ok |-> TRUE]
      [] ct = "application/json;charset=utf-8" ->
            [mt |-> "application/json", charset |-> "utf-8", ok |-> TRUE]
      [] ct = "application/json;charset=UTF-8" ->
            [mt |-> "application/json", charset |-> "UTF-8", ok |-> TRUE]
      [] ct = "application/json;charset=us-ascii" ->
            [mt |-> "application/json", charset |-> "us-ascii", ok |-> TRUE]
      [] ct = "application/json;charset=iso-8859-1" ->
            [mt |-> "application/json", charset |-> "iso-8859-1", ok |-> TRUE]
      [] ct = "application/json;charset=no-such" ->
            [mt |-> "application/json", charset |-> "no-such", ok |-> TRUE]
      [] ct = "application/json;charset=OSD_EBCDIC_DF03_IRV" ->
            [mt |-> "application/json", charset |-> "OSD_EBCDIC_DF03_IRV", ok |-> TRUE]
      [] ct = "text/plain" -> [mt |-> "text/plain", charset |-> "", ok |-> TRUE]
      [] ct = "text/plain; charset=utf-8" ->
            [mt |-> "text/plain", charset |-> "utf-8", ok |-> TRUE]
      [] ct = "text/plain;charset=iso-8859-1" ->
            [mt |-> "text/plain", charset |-> "iso-8859-1", ok |-> TRUE]
      [] ct = "text/plain;charset=no-such" ->
            [mt |-> "text/plain", charset |-> "no-such", ok |-> TRUE]
      [] ct = "text/plain;charset=OSD_EBCDIC_DF03_IRV" ->
            [mt |-> "text/plain", charset |-> "OSD_EBCDIC_DF03_IRV", ok |-> TRUE]
      [] ct = "application/problem+json" ->
            [mt |-> "application/problem+json", charset |-> "", ok |-> TRUE]
      [] ct = "text/json" -> [mt |-> "text/json", charset |-> "", ok |-> TRUE]
      [] ct = "application/something+json" ->
            [mt |-> "application/something+json", charset |-> "", ok |-> TRUE]
      [] ct = "application/json;charset=\"ebcdic\"" ->
            [mt |-> "application/json", charset |-> "ebcdic", ok |-> TRUE]
      [] ct = "application/json;charset=not-known" ->
            [mt |-> "application/json", charset |-> "not-known", ok |-> TRUE]
      [] ct = "application/json;charset=made-up" ->
            [mt |-> "application/json", charset |-> "made-up", ok |-> TRUE]
      [] ct = "x-application/test;charset=utf-8" ->
            [mt |-> "x-application/test", charset |-> "utf-8", ok |-> TRUE]
      [] OTHER -> [mt |-> "", charset |-> "", ok |-> FALSE]

\* strings.HasSuffix(mt, "+json").
HasSuffixJSON(mt) == Len(mt) >= 5 /\ SubSeq(mt, Len(mt) - 4, Len(mt)) = "+json"

\* strings.HasPrefix(mt, "text/").
HasPrefixText(mt) == Len(mt) >= 5 /\ SubSeq(mt, 1, 5) = "text/"

IsJSONMediaType(p) ==
    IF ~p.ok THEN FALSE
    ELSE p.mt = "application/json" \/ p.mt = "text/json" \/ HasSuffixJSON(p.mt)

IsJSONContentType(contentType) == IsJSONMediaType(ParseMediaType(contentType))

(***************************************************************************)
(* marshal and unmarshal.  "calls" lists the stages run, in order.         *)
(***************************************************************************)
MarshalResult(body, isNil, err, calls, tr) ==
    [body |-> body, bodyNil |-> isNil, err |-> err, calls |-> calls, tr |-> tr]

NoTR == TR(<<>>, 0, nil)

\* The charset marshal encodes in when the caller names none.
defaultCharsetUTF8(charset) == IF charset = "" THEN "utf-8" ELSE charset

defaultCharset(charset) == IF charset = "" THEN "us-ascii" ELSE charset

\* The test for the native format, which is not transcoded.
isNativeExact(charset) == charset = "utf-8"

isNative(charset) == EqualFold(charset, "utf-8")

\* marshal from the transcoding on: b is what encoder.Bytes returned.
marshalEncoded(b) ==
    IF b.err # nil
    THEN MarshalResult(<<>>, TRUE, b.err, <<"json.Marshal", "Encoding", "Transform">>, b)
    ELSE MarshalResult(b.out, FALSE, nil, <<"json.Marshal", "Encoding", "Transform">>, b)

\* marshal from the lookup of the charset on: buf is the JSON, e what
\* ianaindex.MIME.Encoding returned.
marshalResolved(buf, e) ==
    IF e.err # nil
    THEN MarshalResult(<<>>, TRUE, e.err, <<"json.Marshal", "Encoding">>, NoTR)
    ELSE IF e.enc = "nil"
    THEN MarshalResult(<<>>, TRUE, errMarshalUnsupported, <<"json.Marshal", "Encoding">>, NoTR)
    ELSE marshalEncoded(EncoderBytes(e.enc, buf))

\* marshal with the charset looked up before the value is serialized.
marshalSerializedResolveFirst(charset, j) ==
    IF ~isNative(charset) /\ Encoding(charset).err # nil
    THEN MarshalResult(<<>>, TRUE, Encoding(charset).err, <<"Encoding">>, NoTR)
    ELSE IF ~isNative(charset) /\ Encoding(charset).enc = "nil"
    THEN MarshalResult(<<>>, TRUE, errMarshalUnsupported, <<"Encoding">>, NoTR)
    ELSE IF j.err # nil
    THEN MarshalResult(<<>>, TRUE, j.err, <<"Encoding", "json.Marshal">>, NoTR)
    ELSE IF isNative(charset)
    THEN MarshalResult(j.buf, FALSE, nil, <<"json.Marshal">>, NoTR)
    ELSE marshalResolved(j.buf, Encoding(charset))

\* marshal from the serialization on: j is what json.Marshal returned.
marshalSerialized(charset, j) ==
    IF j.err # nil
    THEN MarshalResult(<<>>, TRUE, j.err, <<"json.Marshal">>, NoTR)
    ELSE IF isNative(charset)
    THEN MarshalResult(j.buf, FALSE, nil, <<"json.Marshal">>, NoTR)
    ELSE marshalResolved(j.buf, Encoding(charset))

marshal(charset, v) == marshalSerialized(defaultCharset(charset), jsonMarshal(v))

UnmarshalResult(v, err, calls) == [v |-> v, err |-> err, calls |-> calls]

\* The test that sends unmarshal to the charset decoder.
needsDecode(charset) == charset # "" /\ ~EqualFold(charset, "utf-8")

unmarshalParsed(j, calls) == UnmarshalResult(j.v, j.err, calls)

\* unmarshal with the two errors of the lookup taken for each other.
unmarshalResolvedSwapErrors(buf, e) ==
    IF e.err # nil
    THEN UnmarshalResult(Untouched, errUnmarshalUnsupported, <<"Encoding">>)
    ELSE IF e.enc = "nil"
    THEN UnmarshalResult(Untouched, errInvalidName, <<"Encoding">>)
    ELSE unmarshalParsed(jsonUnmarshal(DecodeBytes(e.enc, buf)),
                         <<"Encoding", "Decode", "json.Unmarshal">>)

\* unmarshal from the lookup of the charset on: e is what
\* ianaindex.MIME.Encoding returned.
unmarshalResolved(buf, e) ==
    IF e.err # nil
    THEN UnmarshalResult(Untouched, e.err, <<"Encoding">>)
    ELSE IF e.enc = "nil"
    THEN UnmarshalResult(Untouched, errUnmarshalUnsupported, <<"Encoding">>)
    ELSE unmarshalParsed(jsonUnmarshal(DecodeBytes(e.enc, buf)),
                         <<"Encoding", "Decode", "json.Unmarshal">>)

unmarshal(buf, charset) ==
    IF needsDecode(charset) THEN unmarshalResolved(buf, Encoding(charset))
    ELSE unmarshalParsed(jsonUnmarshal(buf), <<"json.Unmarshal">>)

(***************************************************************************)
(* HTTP messages.  A message is a record: whether it has a Body, the bytes *)
(* of the Body and how many of them were read, whether reading the Body    *)
(* fails, and the headers and fields the package sets or reads.            *)
(***************************************************************************)
NoMessage ==
    [present |-> FALSE, hasBody |-> FALSE, Body |-> <<>>, pos |-> 0, readErr |-> FALSE,
     ContentLength |-> 0, ContentType |-> "", hasGetBody |-> FALSE, getBody |-> <<>>,
     StatusCode |-> 0]

\* A message received from the network, or built by a test.
Message(contentType, body, readErr, status) ==
    [present |-> TRUE, hasBody |-> TRUE, Body |-> body, pos |-> 0, readErr |-> readErr,
     ContentLength |-> Len(body), ContentType |-> contentType, hasGetBody |-> FALSE,
     getBody |-> <<>>, StatusCode |-> status]

\* http.NewRequest(method, url, r) for r nil or a *bytes.Reader over body:
\* net/http sets ContentLength and GetBody itself for a bytes.Reader.
NewRequest(bodyNil, body) ==
    [present |-> TRUE, hasBody |-> ~bodyNil, Body |-> body, pos |-> 0, readErr |-> FALSE,
     ContentLength |-> Len(body), ContentType |-> "", hasGetBody |-> ~bodyNil,
     getBody |-> body, StatusCode |-> 0]

\* io.ReadAll(m.Body).
ReadAll(m) ==
    IF m.readErr THEN [buf |-> <<>>, err |-> errRead]
    ELSE [buf |-> From(m.Body, m.pos), err |-> nil]

\* The Content-Type MarshalRequest and WriteResponse use for none given.
defaultContentType(contentType) ==
    IF contentType = "" THEN DefaultContentType ELSE contentType

\* The function MarshalRequest installs as req.GetBody, applied to the
\* request: a new reader over the marshaled bytes.
GetBodySharedReader(r) == From(r.Body, r.pos)

GetBody(r) == r.getBody

\* MarshalRequest from the call of http.NewRequest on: m is what marshal
\* returned (a nil body without error for a nil v), r the new request.
MarshalRequestBuilt(urlOK, contentType, m, r) ==
    IF m.err # nil THEN [req |-> NoMessage, err |-> m.err, m |-> m]
    ELSE IF ~urlOK THEN [req |-> NoMessage, err |-> errURL, m |-> m]
    ELSE IF ~m.bodyNil
    THEN [req |-> [r EXCEPT !.ContentLength = Len(m.body),
                            !.ContentType = contentType,
                            !.hasGetBody = TRUE,
                            !.getBody = m.body],
          err |-> nil, m |-> m]
    ELSE [req |-> r, err |-> nil, m |-> m]

MarshalRequestMarshaled(urlOK, contentType, m) ==
    MarshalRequestBuilt(urlOK, contentType, m, NewRequest(m.bodyNil, m.body))

MarshalRequestDefaulted(urlOK, contentType, v) ==
    MarshalRequestMarshaled(urlOK, contentType,
        IF v.kind # "nil" THEN marshal(ParseMediaType(contentType).charset, v)
        ELSE MarshalResult(<<>>, TRUE, nil, <<>>, NoTR))

\* MarshalRequest(method, url, contentType, v); urlOK says whether
\* http.NewRequest accepts the method and the URL.
MarshalRequest(urlOK, contentType, v) ==
    MarshalRequestDefaulted(urlOK, defaultContentType(contentType), v)

UnmarshalMessageParsed(u) == UnmarshalResult(u.v, u.err, <<"ReadAll">> \o u.calls)

UnmarshalMessageRead(m, rd) ==
    IF rd.err # nil THEN UnmarshalResult(Untouched, rd.err, <<"ReadAll">>)
    ELSE UnmarshalMessageParsed(unmarshal(rd.buf, ParseMediaType(m.ContentType).charset))

\* UnmarshalRequest(req, v) and UnmarshalResponse(resp, v).
UnmarshalMessage(m) == UnmarshalMessageRead(m, ReadAll(m))

(***************************************************************************)
(* The http.ResponseWriter a handler writes to.  The headers set before    *)
(* the first WriteHeader are the headers sent; Write sends the header with *)
(* status 200 when no WriteHeader came before it.  "calls" lists the calls *)
(* made on the writer, in order.                                           *)
(***************************************************************************)
NewResponseWriter(writeOK) ==
    [ContentType |-> "", ContentLength |-> <<>>, wroteHeader |-> FALSE, Code |-> 0,
     sentContentType |-> "", sentContentLength |-> <<>>, Body |-> <<>>,
     writeOK |-> writeOK, calls |-> <<>>]

\* w.Header().Set("Content-Type", value).
SetContentType(rw, value) ==
    [rw EXCEPT !.ContentType = value, !.calls = Append(@, "Set Content-Type")]

\* w.Header().Set("Content-Length", value).
SetContentLength(rw, value) ==
    [rw EXCEPT !.ContentLength = value, !.calls = Append(@, "Set Content-Length")]

\* The header goes out: the status code and the headers set so far.
sendHeader(rw, code) ==
    IF rw.wroteHeader THEN rw
    ELSE [rw EXCEPT !.wroteHeader = TRUE, !.Code = code,
                    !.sentContentType = rw.ContentType,
                    !.sentContentLength = rw.ContentLength]

\* w.WriteHeader(code).
WriteHeader(rw, code) ==
    [sendHeader(rw, code) EXCEPT !.calls = Append(@, "WriteHeader")]

\* w.Write(buf): the writer and the error returned.
Write(rw, buf) ==
    IF ~rw.writeOK
    THEN [w |-> [rw EXCEPT !.calls = Append(@, "Write")], err |-> errWrite]
    ELSE [w |-> [sendHeader(rw, 200) EXCEPT !.Body = @ \o buf,
                                            !.calls = Append(@, "Write")],
          err |-> nil]

\* strconv.FormatInt(n, 10) for n >= 0: the decimal digits of n.
RECURSIVE FormatInt(_)
FormatInt(n) ==
    IF n < 10 THEN <<48 + n>> ELSE Append(FormatInt(n \div 10), 48 + (n % 10))


\* WriteResponse from the headers on: the body is marshaled.
WriteResponseBody(rw, statusCode, body) ==
    Write(IF statusCode > 0 THEN WriteHeader(rw, statusCode) ELSE rw, body)

\* WriteResponse with the status sent before the headers are set.
WriteResponseMarshaledStatusFirst(rw, statusCode, contentType, v, m) ==
    IF m.err # nil THEN [w |-> rw, err |-> m.err]
    ELSE IF v.kind # "nil"
    THEN Write(SetContentLength(SetContentType(
                   IF statusCode > 0 THEN WriteHeader(rw, statusCode) ELSE rw,
                   contentType), FormatInt(Len(m.body))), m.body)
    ELSE WriteResponseBody(rw, statusCode, m.body)

\* WriteResponse from the call of marshal on: m is what marshal returned
\* (a nil body without error for a nil v).
WriteResponseMarshaled(rw, statusCode, contentType, v, m) ==
    IF m.err # nil THEN [w |-> rw, err |-> m.err]
    ELSE IF v.kind # "nil"
    THEN WriteResponseBody(
             SetContentLength(SetContentType(rw, contentType), FormatInt(Len(m.body))),
             statusCode, m.body)
    ELSE WriteResponseBody(rw, statusCode, m.body)

WriteResponseDefaulted(rw, statusCode, contentType, v) ==
    WriteResponseMarshaled(rw, statusCode, contentType, v,
        IF v.kind # "nil" THEN marshal(ParseMediaType(contentType).charset, v)
        ELSE MarshalResult(<<>>, TRUE, nil, <<>>, NoTR))

\* WriteResponse(w, statusCode, contentType, v).
WriteResponse(rw, statusCode, contentType, v) ==
    WriteResponseDefaulted(rw, statusCode, defaultContentType(contentType), v)

(***************************************************************************)
(* The client.                                                             *)
(***************************************************************************)
errResponseError == Err("*ResponseError", "")

NoResponseError == [Response |-> NoMessage, Body |-> <<>>]

newResponseErrorRead(resp, rd) ==
    IF rd.err # nil THEN [err |-> rd.err, rerr |-> NoResponseError]
    ELSE [err |-> errResponseError,
          rerr |-> [Response |-> [resp EXCEPT !.hasBody = FALSE, !.Body = <<>>],
                    Body |-> rd.buf]]

\* newResponseError(resp): the error and the ResponseError it points to.
newResponseError(resp) == newResponseErrorRead(resp, ReadAll(resp))

\* utf8.RuneStart(b).
RuneStart(b) == b < 128 \/ b >= 192

\* The index at which utf8.DecodeLastRune starts to decode: it backs up
\* from start to the first byte, not below lim, that can start a rune.
RECURSIVE lastRuneStart(_, _, _)
lastRuneStart(p, start, lim) ==
    IF start < lim THEN (IF start < 0 THEN 0 ELSE start)
    ELSE IF RuneStart(p[start + 1]) THEN start
    ELSE lastRuneStart(p, start - 1, lim)

decodeLastRuneAt(p, start, d) ==
    IF start + d.size # Len(p) THEN [r |-> RuneError, size |-> 1] ELSE d

decodeLastRuneFrom(p, start) == decodeLastRuneAt(p, start, DecodeRune(From(p, start)))

\* utf8.DecodeLastRune(p).
DecodeLastRune(p) ==
    IF p = <<>> THEN [r |-> RuneError, size |-> 0]
    ELSE IF p[Len(p)] < 128 THEN [r |-> p[Len(p)], size |-> 1]
    ELSE decodeLastRuneFrom(p, lastRuneStart(p, Len(p) - 2,
                                             IF Len(p) > 4 THEN Len(p) - 4 ELSE 0))

\* unicode.IsSpace(r).
IsSpace(r) ==
    \/ r \in {9, 10, 11, 12, 13, 32, 133, 160, 5760, 8232, 8233, 8239, 8287, 12288}
    \/ r \in 8192..8202

RECURSIVE trimLeft(_)
trimLeftRune(p, d) == IF IsSpace(d.r) THEN trimLeft(From(p, d.size)) ELSE p

trimLeft(p) == IF p = <<>> THEN p ELSE trimLeftRune(p, DecodeRune(p))

RECURSIVE trimRight(_)
trimRightRune(p, d) ==
    IF IsSpace(d.r) THEN trimRight(SubSeq(p, 1, Len(p) - d.size)) ELSE p

trimRight(p) == IF p = <<>> THEN p ELSE trimRightRune(p, DecodeLastRune(p))

\* bytes.TrimSpace(p).
TrimSpace(p) == trimRight(trimLeft(p))

\* http.StatusText(code) for the status codes of the model.
StatusText(code) ==
    CASE code = 200 -> <<79, 75>>
      [] code = 204 -> <<78, 111, 32, 67, 111, 110, 116, 101, 110, 116>>
      [] code = 300 -> <<77, 117, 108, 116, 105, 112, 108, 101, 32, 67, 104, 111, 105, 99, 101, 115>>
      [] code = 404 -> <<78, 111, 116, 32, 70, 111, 117, 110, 100>>
      [] code = 500 -> <<73, 110, 116, 101, 114, 110, 97, 108, 32, 83, 101, 114, 118, 101, 114, 32, 69, 114, 114, 111, 114>>
      [] OTHER -> <<>>

\* resp.Status, the status line as a server of net/http writes it: the
\* code and its text, "status code " and the code for a code without text.
Status(resp) ==
    FormatInt(resp.StatusCode) \o <<32>> \o
    (IF StatusText(resp.StatusCode) # <<>> THEN StatusText(resp.StatusCode)
     ELSE <<115, 116, 97, 116, 117, 115, 32, 99, 111, 100, 101, 32>> \o FormatInt(resp.StatusCode))

\* The length from which on a body is too long for a message.
MessageLimit == 256

\* The test of ResponseError.Error for a body to use as the message.
isMessageToLimit(buf) == Len(buf) > 0 /\ Len(buf) <= MessageLimit

isMessage(buf) == Len(buf) > 0 /\ Len(buf) < MessageLimit

\* ResponseError.Error from the decoding on: b is the body, decoded where
\* the charset asks for it, and the error of the lookup or the decoding.
ErrorDecoded(e, b) ==
    IF b.err = nil /\ isMessage(b.buf) THEN TrimSpace(b.buf) ELSE Status(e.Response)

\* The body of the message of ResponseError.Error: enc is what
\* ianaindex.MIME.Encoding returned; without an encoding the body stays.
ErrorResolved(body, enc) ==
    IF enc.err = nil /\ enc.enc # "nil"
    THEN [buf |-> DecodeBytes(enc.enc, body), err |-> nil]
    ELSE [buf |-> body, err |-> enc.err]

ErrorBody(body, charset) ==
    IF needsDecode(charset) THEN ErrorResolved(body, Encoding(charset))
    ELSE [buf |-> body, err |-> nil]

ErrorParsed(e, p) ==
    IF p.ok /\ HasPrefixText(p.mt) THEN ErrorDecoded(e, ErrorBody(e.Body, p.charset))
    ELSE Status(e.Response)

\* (*ResponseError).Error(), the string as its bytes.
Error(e) == ErrorParsed(e, ParseMediaType(e.Response.ContentType))

\* The test of Client.Do for a successful response.
isSuccessTo399(code) == 200 <= code /\ code < 400

isSuccess(code) == 200 <= code /\ code < 300

\* c.IsJSONContentType, with IsJSONContentType for a nil field; the
\* predicate "text" of the model accepts text/plain alone and the
\* predicate "test", of TestClientDoCustomContentType, the Content-Type of
\* that test alone.
isJSONContentTypeOf(pred, contentType) ==
    IF pred = "nil" THEN IsJSONContentType(contentType)
    ELSE IF pred = "text" THEN contentType = "text/plain"
    ELSE contentType = "x-application/test;charset=utf-8"

DoResult(err, rerr, v, calls) == [err |-> err, rerr |-> rerr, v |-> v, calls |-> calls]

\* The error of Client.Do for a response that is no JSON.
badContentTypeError(resp) ==
    [err |-> errBadContentType(resp.ContentType), rerr |-> NoResponseError]

(***************************************************************************)
(* The inputs of the model.                                                *)
(***************************************************************************)
Values == {NilValue, ChanValue} \cup {TestValue(s) : s \in SeqsUpTo(Alphabet, MaxLen)}

MarshalContentTypes == JSONContentTypes \cup {"", "application/json;charset"}

\* {"s":"☺"}, {"s":"☺£"} in iso-8859-1, {"s":"☺"} in UTF-8,
\* {"s":"😂"}, {"s":"\ud83d"}, and the truncated document {.
Bodies ==
    {ObjOpen \o escape(9786) \o ObjClose,
     ObjOpen \o escape(9786) \o <<163>> \o ObjClose,
     ObjOpen \o EncodeRune(9786) \o ObjClose,
     ObjOpen \o escape(55357) \o escape(56834) \o ObjClose,
     ObjOpen \o escape(55357) \o ObjClose,
     <<123>>}

\* The bodies of the responses a server sends: a JSON document, "404 page
\* not found\n", "£\n" in iso-8859-1, and no body.
ResponseBodies ==
    {ObjOpen \o escape(9786) \o ObjClose,
     <<52, 48, 52, 32, 112, 97, 103, 101, 32, 110, 111, 116, 32, 102, 111, 117, 110, 100, 10>>,
     <<163, 10>>,
     <<>>}

\* More bodies of the responses that are no success: of the longest length
\* that makes a message and one byte longer, of the longest length with a
\* byte that iso-8859-1 decodes into two, white space alone, and a no-break
\* space of iso-8859-1 before a letter.
ErrorBodies ==
    {[k \in 1..(MessageLimit - 1) |-> 97],
     [k \in 1..MessageLimit |-> 97],
     [k \in 1..(MessageLimit - 1) |-> IF k = 1 THEN 163 ELSE 97],
     <<32, 10>>,
     <<160, 97, 9>>}

\* The status codes given to WriteResponse; none is sent for one <= 0.
WriteStatusCodes == {-1, 0, 201, 204}

StatusCodes == {199, 200, 204, 299, 300, 404, 500}

ResponseContentTypes ==
    {"", "application/json", "application/json;charset=iso-8859-1", "text/plain",
     "text/plain; charset=utf-8", "text/plain;charset=iso-8859-1", "application/problem+json"}

\* More Content-Types of the responses that are no success.
ErrorContentTypes ==
    {"text/plain;charset=no-such", "text/plain;charset=OSD_EBCDIC_DF03_IRV", "text/json"}

\* The code points of the strings Transform is driven over, and the
\* lengths of the dst it is given: too short for any escape, too short for
\* the escape of a surrogate pair, and long enough for either.
TransformAlphabet == {97, 163, 9786, 65533, 128514}

DstSizes == {5, 8, 13}

\* The values given to Client.Do with each of the responses.
DoValues == {NilValue, ChanValue}


Inputs ==
    [op : {"MarshalRequest"}, urlOK : BOOLEAN, contentType : MarshalContentTypes, v : Values]
    \cup
    [op : {"UnmarshalRequest", "UnmarshalResponse"}, contentType : MarshalContentTypes,
     body : Bodies, readErr : BOOLEAN]
    \cup
    [op : {"Transform"}, e : {"ascii", "latin1"}, s : SeqsUpTo(TransformAlphabet, MaxLen)]
    \cup
    [op : {"WriteResponse"}, statusCode : WriteStatusCodes, contentType : MarshalContentTypes,
     v : Values, writeOK : BOOLEAN]
    \cup
    [op : {"Do"}, urlOK : BOOLEAN, contentType : {"", "application/json;charset=no-such"},
     v : DoValues, pred : {"nil", "text"}, transportOK : BOOLEAN,
     hresp : {Message(ct, b, re, st) : ct \in ResponseContentTypes, b \in ResponseBodies,
                                        re \in BOOLEAN, st \in StatusCodes}]
    \cup
    [op : {"Do"}, urlOK : {TRUE}, contentType : {""}, v : {NilValue}, pred : {"nil"},
     transportOK : {TRUE},
     hresp : {Message(ct, b, FALSE, st) :
                  ct \in ResponseContentTypes \cup ErrorContentTypes,
                  b \in ResponseBodies \cup ErrorBodies, st \in {404, 500}}]
    \cup
    [op : {"UnmarshalRequest", "UnmarshalResponse"}, contentType : TestContentTypes,
     body : {ObjOpen \o EncodeRune(9786) \o ObjClose}, readErr : {FALSE}]
    \cup
    [op : {"Do"}, urlOK : {TRUE},
     contentType : {"", "application/json;charset=made-up",
                    "x-application/test;charset=utf-8"},
     v : {TestValue(<<9786>>)}, pred : {"nil", "test"}, transportOK : BOOLEAN,
     hresp : {Message(ct, ObjOpen \o EncodeRune(9786) \o ObjClose, FALSE, st) :
                  ct \in TestContentTypes, st \in {200, 404}}]

(***************************************************************************)
(* The state machine: a caller holds the inputs "in" of one operation,     *)
(* calls it, and then uses what it returned.  "req" is the request at      *)
(* hand, "ret" what the last step returned.                                *)
(***************************************************************************)
NoRet == [op |-> "none"]

\* All of body has been read, unless the read fails.
Drained(m) == [m EXCEPT !.pos = IF m.readErr THEN m.pos ELSE Len(m.Body)]

Init ==
    /\ in \in Inputs
    /\ pc = "call"
    /\ req = IF in.op = "UnmarshalRequest"
             THEN Message(in.contentType, in.body, in.readErr, 0)
             ELSE NoMessage
    /\ ret = NoRet
    /\ w = NewResponseWriter(IF in.op = "WriteResponse" THEN in.writeOK ELSE TRUE)
    /\ stream = IF in.op = "Transform"
                THEN NewStream(in.e, jsonMarshal(TestValue(in.s)).buf)
                ELSE NoStream
    /\ hresp = IF in.op = "UnmarshalResponse"
               THEN Message(in.contentType, in.body, in.readErr, 200)
               ELSE NoMessage

MarshalRequestReturns(r) ==
    /\ req' = r.req
    /\ ret' = [op |-> "MarshalRequest", err |-> r.err, m |-> r.m]

\* The caller runs MarshalRequest.
CallMarshalRequest ==
    /\ pc = "call"
    /\ in.op = "MarshalRequest"
    /\ MarshalRequestReturns(MarshalRequest(in.urlOK, in.contentType, in.v))
    /\ pc' = "returned"
    /\ UNCHANGED <<in, w, stream, hresp>>

\* The caller, or the HTTP client that Client.Do has called, reads n more
\* bytes from req.Body.
ReadBody ==
    /\ \/ pc = "returned" /\ in.op = "MarshalRequest"
       \/ pc = "client.Do"
    /\ req.present /\ req.hasBody
    /\ \E n \in 1..(Len(req.Body) - req.pos) :
          /\ req' = [req EXCEPT !.pos = req.pos + n]
          /\ ret' = [op |-> "Read", data |-> SubSeq(req.Body, req.pos + 1, req.pos + n)]
    /\ UNCHANGED <<in, pc, w, stream, hresp>>

\* The HTTP client calls req.GetBody (on a redirect) and reads all of the
\* reader it returns.
CallGetBody ==
    /\ \/ pc = "returned" /\ in.op = "MarshalRequest"
       \/ pc = "client.Do"
    /\ req.present /\ req.hasGetBody
    /\ ret' = [op |-> "GetBody", data |-> GetBody(req)]
    /\ UNCHANGED <<in, pc, req, w, stream, hresp>>

UnmarshalReturns(op, u) ==
    ret' = [op |-> op, err |-> u.err, v |-> u.v, calls |-> u.calls]

\* A server runs UnmarshalRequest: on the request of a test, or on the
\* request MarshalRequest has just built, received unread.
CallUnmarshalRequest ==
    /\ \/ pc = "call" /\ in.op = "UnmarshalRequest"
       \/ pc = "returned" /\ in.op = "MarshalRequest" /\ ret.op = "MarshalRequest"
          /\ req.present /\ req.hasBody
    /\ UnmarshalReturns("UnmarshalRequest", UnmarshalMessage(req))
    /\ req' = Drained(req)
    /\ pc' = "done"
    /\ UNCHANGED <<in, w, stream, hresp>>

\* A client runs UnmarshalResponse on a response.
CallUnmarshalResponse ==
    /\ pc = "call"
    /\ in.op = "UnmarshalResponse"
    /\ UnmarshalReturns("UnmarshalResponse", UnmarshalMessage(hresp))
    /\ hresp' = Drained(hresp)
    /\ pc' = "done"
    /\ UNCHANGED <<in, req, w, stream>>

DoReturns(d) ==
    /\ ret' = [op |-> "Do", err |-> d.err, rerr |-> d.rerr, v |-> d.v, calls |-> d.calls]
    /\ pc' = "done"

\* Client.Do runs MarshalRequest and, with a request, calls the HTTP
\* client with it.
DoMarshalRequest(mr) ==
    /\ req' = mr.req
    /\ IF mr.err # nil
       THEN DoReturns(DoResult(mr.err, NoResponseError, Untouched, <<"MarshalRequest">>))
       ELSE pc' = "client.Do" /\ UNCHANGED ret

CallDo ==
    /\ pc = "call"
    /\ in.op = "Do"
    /\ DoMarshalRequest(MarshalRequest(in.urlOK, in.contentType, in.v))
    /\ UNCHANGED <<in, w, stream, hresp>>

\* The HTTP client returns to Client.Do: an error, or the response of the
\* server with its body unread.  The server may answer before all of the
\* body of the request has been read.
ClientDoReturns ==
    /\ pc = "client.Do"
    /\ IF in.transportOK
       THEN hresp' = in.hresp /\ pc' = "response" /\ UNCHANGED ret
       ELSE /\ DoReturns(DoResult(errTransport, NoResponseError, Untouched,
                                   <<"MarshalRequest", "client.Do">>))
            /\ UNCHANGED hresp
    /\ UNCHANGED <<in, req, w, stream>>

\* Client.Do looks at the status and the Content-Type of the response: it
\* calls newResponseError, returns an error, or calls UnmarshalResponse.
DoCheckResponse ==
    /\ pc = "response"
    /\ IF ~isSuccess(hresp.StatusCode) THEN pc' = "newResponseError" /\ UNCHANGED ret
       ELSE IF ~isJSONContentTypeOf(in.pred, hresp.ContentType)
       THEN DoReturns(DoResult(badContentTypeError(hresp).err,
                               badContentTypeError(hresp).rerr, Untouched,
                               <<"MarshalRequest", "client.Do", "isJSONContentType">>))
       ELSE pc' = "UnmarshalResponse" /\ UNCHANGED ret
    /\ UNCHANGED <<in, req, w, stream, hresp>>

\* newResponseError has read the body of the response and Client.Do
\* returns its error.
DoNewResponseErrorReturns(r) ==
    DoReturns(DoResult(r.err, r.rerr, Untouched,
                       <<"MarshalRequest", "client.Do", "newResponseError">>))

DoNewResponseError ==
    /\ pc = "newResponseError"
    /\ DoNewResponseErrorReturns(newResponseError(hresp))
    /\ hresp' = Drained(hresp)
    /\ UNCHANGED <<in, req, w, stream>>

\* UnmarshalResponse has read the body of the response and Client.Do
\* returns its error.
DoUnmarshalResponseReturns(u) ==
    DoReturns(DoResult(u.err, NoResponseError, u.v,
                       <<"MarshalRequest", "client.Do", "isJSONContentType",
                         "UnmarshalResponse">>))

DoUnmarshalResponse ==
    /\ pc = "UnmarshalResponse"
    /\ DoUnmarshalResponseReturns(UnmarshalMessage(hresp))
    /\ hresp' = Drained(hresp)
    /\ UNCHANGED <<in, req, w, stream>>

\* The caller of Client.Do reads the message of the *ResponseError it got.
CallError ==
    /\ pc = "done"
    /\ ret.op = "Do"
    /\ ret.err = errResponseError
    /\ ret' = [op |-> "Error", msg |-> Error(ret.rerr), rerr |-> ret.rerr]
    /\ UNCHANGED <<in, pc, req, w, stream, hresp>>

\* The caller of Transform passes it the bytes carried over and n more, of
\* any number that is left, and a dst of one of the lengths; without new
\* bytes it calls again only to give room in dst.
CallTransform ==
    /\ pc = "call"
    /\ in.op = "Transform"
    /\ \E n \in 0..(Len(stream.src) - stream.fed), cap \in DstSizes :
          /\ n = 0 => stream.called /\ stream.last.res.err = ErrShortDst
          /\ stream' = StreamCall(stream, n, cap)
    /\ pc' = IF StreamDone(stream') THEN "done" ELSE "call"
    /\ UNCHANGED <<in, req, ret, w, hresp>>

WriteResponseReturns(r) ==
    /\ w' = r.w
    /\ ret' = [op |-> "WriteResponse", err |-> r.err]

\* A handler runs WriteResponse on its ResponseWriter.
CallWriteResponse ==
    /\ pc = "call"
    /\ in.op = "WriteResponse"
    /\ WriteResponseReturns(WriteResponse(w, in.statusCode, in.contentType, in.v))
    /\ pc' = "done"
    /\ UNCHANGED <<in, req, stream, hresp>>

Next ==
    \/ CallMarshalRequest
    \/ ReadBody
    \/ CallGetBody
    \/ CallUnmarshalRequest
    \/ CallUnmarshalResponse
    \/ CallDo
    \/ ClientDoReturns
    \/ DoCheckResponse
    \/ DoNewResponseError
    \/ DoUnmarshalResponse
    \/ CallError
    \/ CallTransform
    \/ CallWriteResponse

Spec == Init /\ [][Next]_vars

(***************************************************************************)
(* What the claims speak of, stated from the inputs.                       *)
(***************************************************************************)
\* The charset a Content-Type given to MarshalRequest asks for.
ClaimCharset(contentType) ==
    IF contentType = "" THEN "utf-8"
    ELSE IF ParseMediaType(contentType).charset = "" THEN "us-ascii"
    ELSE ParseMediaType(contentType).charset

ClaimIsUTF8(charset) == charset \in {"utf-8", "UTF-8"}

ClaimSupportedNonUTF8(charset) == charset \in {"us-ascii", "iso-8859-1"}

ClaimInvalidName(charset) == charset \in {"no-such", "not-known", "made-up", "ebcdic"}

ClaimUnsupported(charset) == charset = "OSD_EBCDIC_DF03_IRV"

ClaimEnc(charset) == IF charset = "us-ascii" THEN "ascii" ELSE "latin1"

HexString == <<48, 49, 50, 51, 52, 53, 54, 55, 56, 57, 97, 98, 99, 100, 101, 102>>

\* \uXXXX for a 16-bit unit: four lowercase, zero-padded hex digits.
ClaimUnit(u) ==
    <<92, 117>> \o [k \in 1..4 |-> HexString[((u \div (16 ^ (4 - k))) % 16) + 1]]

\* The JSON escape of a code point: one unit below 0x10000, else the high
\* and then the low surrogate of its UTF-16 pair.
ClaimEscape(r) ==
    IF r < 65536 THEN ClaimUnit(r)
    ELSE ClaimUnit(55296 + ((r - 65536) \div 1024)) \o ClaimUnit(56320 + ((r - 65536) % 1024))

\* A text, code point by code point, in the charset of encoder e: the
\* native byte of a code point the charset includes (in us-ascii and
\* iso-8859-1 the code point itself), the JSON escape of any other.
RECURSIVE ClaimEncoding(_, _)
ClaimEncoding(e, runes) ==
    IF runes = <<>> THEN <<>>
    ELSE (IF Representable(e, Head(runes)) THEN <<Head(runes)>> ELSE ClaimEscape(Head(runes)))
         \o ClaimEncoding(e, Tail(runes))

\* The plain JSON serialization of the value marshaled.
PlainJSON == ObjOpen \o jsonString(in.v.S) \o ObjClose

AfterMarshalRequest == in.op = "MarshalRequest" /\ ret.op = "MarshalRequest"

AfterUnmarshal == ret.op \in {"UnmarshalRequest", "UnmarshalResponse"} /\ in.op = ret.op

\* The number a sequence of decimal digits denotes.
RECURSIVE ClaimDecimal(_)
ClaimDecimal(digits) ==
    IF digits = <<>> THEN 0
    ELSE 10 * ClaimDecimal(SubSeq(digits, 1, Len(digits) - 1)) + (digits[Len(digits)] - 48)

AfterWriteResponse == in.op = "WriteResponse" /\ ret.op = "WriteResponse"

(***************************************************************************)
(* The claims.                                                             *)
(***************************************************************************)
\* C1: for every serializable value and every supported charset other than
\* UTF-8, marshal succeeds and its output is the serialized JSON with every
\* code point outside the charset replaced by its JSON escape (one \uXXXX
\* below 0x10000, the surrogate pair at or above it).
C1_EscapesAlways ==
    (AfterMarshalRequest /\ in.v.kind = "testValue"
        /\ ClaimSupportedNonUTF8(ClaimCharset(in.contentType)))
    => /\ ret.m.err = nil
       /\ ret.m.body = ClaimEncoding(ClaimEnc(ClaimCharset(in.contentType)), Runes(PlainJSON))

\* C2: whatever the transcoder has written is, code point by code point
\* and in the order of the input, the text it has consumed: the native byte
\* of every code point the charset includes (the JSON structural characters
\* among them), never an escape of it, also next to an escaped code point;
\* and a marshal that succeeds has consumed all of the JSON.
C2_NativePassthrough ==
    (AfterMarshalRequest /\ Len(ret.m.calls) = 3)
    => /\ ret.m.tr.out = ClaimEncoding(ClaimEnc(ClaimCharset(in.contentType)),
                                       Runes(SubSeq(PlainJSON, 1, ret.m.tr.nSrc)))
       /\ ret.m.err = nil => ret.m.tr.nSrc = Len(PlainJSON) /\ ret.m.body = ret.m.tr.out

\* C2's case: {"s":"£☺"} marshaled into iso-8859-1 is {"s":"\xa3☺"}.
C2_Witness ==
    /\ AfterMarshalRequest
    /\ in.v = TestValue(<<163, 9786>>)
    /\ in.contentType = "application/json;charset=iso-8859-1"
    /\ ret.m.body = <<123, 34, 115, 34, 58, 34, 163, 92, 117, 50, 54, 51, 97, 34, 125>>

\* C3: for every serializable value V and every supported charset C,
\* unmarshal(marshal(V, C), C, &V2) succeeds and V2 equals V.
C3_RoundTrip ==
    (in.op = "MarshalRequest" /\ in.v.kind = "testValue" /\ in.urlOK
        /\ (ClaimIsUTF8(ClaimCharset(in.contentType))
            \/ ClaimSupportedNonUTF8(ClaimCharset(in.contentType))))
    => /\ ret.op = "MarshalRequest" => ret.err = nil
       /\ ret.op = "UnmarshalRequest" => ret.err = nil /\ ret.v = in.v

\* C4: a charset name that is no charset label yields the registry's
\* "invalid encoding name" error and a recognized name without transform
\* the distinct "unsupported encoding" error, in marshal and in unmarshal
\* alike, never one for the other; in both cases no body is produced and
\* no JSON is parsed.
C4_ErrorKinds ==
    /\ (AfterMarshalRequest /\ in.v.kind = "testValue")
       => /\ ClaimInvalidName(ClaimCharset(in.contentType))
             <=> ret.err.msg = "ianaindex: invalid encoding name"
          /\ ClaimUnsupported(ClaimCharset(in.contentType))
             <=> ret.err.msg = "marshal: unsupported encoding"
          /\ (ClaimInvalidName(ClaimCharset(in.contentType))
              \/ ClaimUnsupported(ClaimCharset(in.contentType)))
             => ret.m.bodyNil /\ ~req.present
    /\ (AfterUnmarshal /\ ~in.readErr)
       => /\ ClaimInvalidName(ParseMediaType(in.contentType).charset)
             <=> ret.err.msg = "ianaindex: invalid encoding name"
          /\ ClaimUnsupported(ParseMediaType(in.contentType).charset)
             <=> ret.err.msg = "unmarshal: unsupported encoding"
          /\ (ClaimInvalidName(ParseMediaType(in.contentType).charset)
              \/ ClaimUnsupported(ParseMediaType(in.contentType).charset))
             => ret.v = Untouched /\ ret.calls = <<"ReadAll", "Encoding">>

\* C4's case: unmarshal of a body in the charset OSD_EBCDIC_DF03_IRV.
C4_Witness ==
    /\ AfterUnmarshal
    /\ in.contentType = "application/json;charset=OSD_EBCDIC_DF03_IRV"
    /\ ret.err = errUnmarshalUnsupported

\* C5: MarshalRequest and WriteResponse with an empty contentType send
\* "application/json;charset=utf-8" and a UTF-8 body; with a contentType
\* that has no charset parameter the body is us-ascii, its code points
\* above 0x7f escaped, under the contentType as it was given;
\* UnmarshalRequest and UnmarshalResponse without a charset parameter
\* parse the bytes of the body as they are.
C5_Defaulting ==
    /\ (AfterMarshalRequest /\ in.v.kind = "testValue" /\ ret.err = nil
            /\ in.contentType = "")
       => /\ req.ContentType = "application/json;charset=utf-8"
          /\ req.Body = Utf8(Runes(PlainJSON))
          /\ ret.m.calls = <<"json.Marshal">>
    /\ (AfterMarshalRequest /\ in.v.kind = "testValue"
            /\ in.contentType \in {"application/json", "application/json;charset"})
       => /\ ret.m.calls = <<"json.Marshal", "Encoding", "Transform">>
          /\ ret.m.err = nil
             => /\ ret.m.body = ClaimEncoding("ascii", Runes(PlainJSON))
                /\ \A i \in 1..Len(ret.m.body) : ret.m.body[i] <= 127
    /\ (AfterWriteResponse /\ in.v.kind = "testValue" /\ in.contentType = "")
       => /\ ret.err = (IF in.writeOK THEN nil ELSE errWrite)
          /\ w.ContentType = "application/json;charset=utf-8"
          /\ w.wroteHeader => w.sentContentType = "application/json;charset=utf-8"
          /\ w.Body = (IF in.writeOK THEN Utf8(Runes(PlainJSON)) ELSE <<>>)
    /\ (AfterWriteResponse /\ in.v.kind = "testValue"
            /\ in.contentType \in {"application/json", "application/json;charset"})
       => /\ ret.err \in {nil, errWrite}
             => /\ w.ContentType = in.contentType
                /\ w.wroteHeader => w.sentContentType = in.contentType
                /\ ClaimDecimal(w.ContentLength)
                       = Len(ClaimEncoding("ascii", Runes(PlainJSON)))
          /\ ret.err = nil
             => /\ w.Body = ClaimEncoding("ascii", Runes(PlainJSON))
                /\ \A i \in 1..Len(w.Body) : w.Body[i] <= 127
          /\ ret.err \notin {nil, errWrite} => w = NewResponseWriter(in.writeOK)
    /\ (AfterUnmarshal /\ ~in.readErr
            /\ in.contentType \in {"", "application/json", "application/json;charset"})
       => /\ ret.calls = <<"ReadAll", "json.Unmarshal">>
          /\ ret.err = jsonUnmarshal(in.body).err
          /\ ret.v = jsonUnmarshal(in.body).v

\* C5's case: {"s":"☺"} with the Content-Type "application/json", which
\* names no charset, is sent as {"s":"☺"}.
C5_Witness ==
    /\ AfterMarshalRequest
    /\ in.v = TestValue(<<9786>>)
    /\ in.contentType = "application/json"
    /\ req.Body = <<123, 34, 115, 34, 58, 34, 92, 117, 50, 54, 51, 97, 34, 125>>

\* C6: for a charset equal to "utf-8" in any letter case, marshal returns
\* the bytes of the plain JSON serialization, looks up no charset and
\* transcodes nothing, so it fails with no charset error.
C6_UTF8Identity ==
    (AfterMarshalRequest /\ in.v.kind = "testValue"
        /\ ClaimIsUTF8(ClaimCharset(in.contentType)))
    => /\ ret.m.err = nil
       /\ ret.m.body = PlainJSON
       /\ ret.m.calls = <<"json.Marshal">>

\* C6's case: a value with characters outside ASCII, charset=UTF-8.
C6_Witness ==
    /\ AfterMarshalRequest
    /\ in.v = TestValue(<<9786, 128514>>)
    /\ in.contentType = "application/json;charset=UTF-8"
    /\ ret.m.body = ObjOpen \o <<226, 152, 186, 240, 159, 152, 130>> \o ObjClose

IsPrefix(s, t) == Len(s) <= Len(t) /\ s = SubSeq(t, 1, Len(s))

\* C7: marshal runs JSON-serialize, resolve charset, transcode, and
\* unmarshal runs read body, resolve charset, decode, JSON-parse, in that
\* order; each returns the error of the first stage that fails, unchanged,
\* and runs no stage after it.  A value that cannot be serialized reports
\* the JSON error also for an unsupported charset; a body that cannot be
\* read reports the read error, and nothing is resolved or parsed.
C7_StageOrder ==
    /\ (AfterMarshalRequest /\ in.v.kind # "nil")
       => /\ IsPrefix(ret.m.calls, <<"json.Marshal", "Encoding", "Transform">>)
          /\ Len(ret.m.calls) >= 1
          /\ in.v.kind = "chan"
             => ret.err = errUnsupportedType /\ ret.m.calls = <<"json.Marshal">>
          /\ (in.v.kind # "chan" /\ Len(ret.m.calls) = 1)
             => ret.m.err = nil /\ ClaimIsUTF8(ClaimCharset(in.contentType))
          /\ Len(ret.m.calls) = 2
             => /\ ret.err = Encoding(ClaimCharset(in.contentType)).err
                   \/ (Encoding(ClaimCharset(in.contentType)).err = nil
                       /\ ret.err = errMarshalUnsupported)
                /\ ret.err # nil
          /\ Len(ret.m.calls) = 3 => ret.m.err = ret.m.tr.err
          /\ ret.m.err # nil => ret.err = ret.m.err
    /\ AfterUnmarshal
       => /\ \/ IsPrefix(ret.calls, <<"ReadAll", "Encoding", "Decode", "json.Unmarshal">>)
             \/ ret.calls = <<"ReadAll", "json.Unmarshal">>
          /\ in.readErr <=> ret.calls = <<"ReadAll">>
          /\ in.readErr => ret.err = errRead /\ ret.v = Untouched
          /\ Len(ret.calls) = 2 /\ ret.calls[2] = "Encoding"
             => ret.err # nil /\ ret.v = Untouched
          /\ ret.err = nil => ret.calls[Len(ret.calls)] = "json.Unmarshal"

\* C7's case: a value json cannot serialize, for an unsupported charset.
C7_Witness ==
    /\ AfterMarshalRequest
    /\ in.v = ChanValue
    /\ in.contentType = "application/json;charset=OSD_EBCDIC_DF03_IRV"
    /\ ret.err.msg = "json: unsupported type: chan int"

\* Client.Do has received a response from the HTTP client.
DoGotResponse == ret.op = "Do" /\ Len(ret.calls) >= 2 /\ in.transportOK

ClaimSuccess(code) == code \in 200..299

\* C8 as claimed: for every response with a status outside 200..299, Do
\* returns a *ResponseError, whatever the Content-Type, resp is not
\* unmarshaled into, and the ResponseError holds the whole body and a copy
\* of the response without Body.
C8_AlwaysResponseError ==
    (DoGotResponse /\ ~ClaimSuccess(in.hresp.StatusCode))
    => /\ ret.err.type = "*ResponseError"
       /\ ret.v = Untouched
       /\ ret.rerr.Body = in.hresp.Body
       /\ ~ret.rerr.Response.hasBody
       /\ ret.rerr.Response.StatusCode = in.hresp.StatusCode

\* C8 amended: the same, for a response whose body can be read to its end;
\* when reading the body fails, Do returns the read error unchanged, and
\* resp is not unmarshaled into either.
C8_ResponseErrorUnlessReadFails ==
    (DoGotResponse /\ ~ClaimSuccess(in.hresp.StatusCode))
    => /\ ret.v = Untouched
       /\ in.hresp.readErr => ret.err = errRead
       /\ ~in.hresp.readErr
          => /\ ret.err.type = "*ResponseError"
             /\ ret.rerr.Body = in.hresp.Body
             /\ ~ret.rerr.Response.hasBody
             /\ ret.rerr.Response.StatusCode = in.hresp.StatusCode
             /\ ret.rerr.Response.ContentType = in.hresp.ContentType

\* C8's case: a 404 with a JSON Content-Type and a JSON body.
C8_Witness ==
    /\ DoGotResponse
    /\ in.hresp.StatusCode = 404
    /\ in.hresp.ContentType = "application/json"
    /\ ret.err.type = "*ResponseError"
    /\ ret.rerr.Body = ObjOpen \o escape(9786) \o ObjClose

\* C9: a 2xx response whose Content-Type the JSON predicate rejects makes
\* Do return a *ResponseError.
C9_BadContentTypeIsResponseError ==
    (DoGotResponse /\ ClaimSuccess(in.hresp.StatusCode)
        /\ ~(IF in.pred = "nil" THEN in.hresp.ContentType \in
                    {"application/json", "application/json;charset=iso-8859-1",
                     "application/problem+json", "application/something+json",
                     "application/json;charset=\"ebcdic\"",
                     "application/json;charset=not-known",
                     "application/json;charset=made-up"}
             ELSE IF in.pred = "text" THEN in.hresp.ContentType = "text/plain"
             ELSE in.hresp.ContentType = "x-application/test;charset=utf-8"))
    => ret.err.type = "*ResponseError"

\* C10: a request MarshalRequest returns has body parts exactly for a
\* non-nil v: then its Body is the marshaled bytes, ContentLength their
\* length, Content-Type the contentType (the default for ""), and GetBody
\* yields the complete body however much of Body was read; for a nil v it
\* has no Body, no Content-Type and no GetBody, and no charset is resolved,
\* so that only the URL or method can make it fail.
C10_BodyParts ==
    /\ (in.op = "MarshalRequest" /\ req.present)
       => /\ req.hasBody <=> in.v.kind # "nil"
          /\ req.hasGetBody <=> in.v.kind # "nil"
          /\ req.ContentLength = Len(req.Body)
          /\ in.v.kind = "nil"
             => req.Body = <<>> /\ req.ContentType = "" /\ req.ContentLength = 0
          /\ in.v.kind # "nil"
             => /\ req.ContentType = (IF in.contentType = ""
                                      THEN "application/json;charset=utf-8"
                                      ELSE in.contentType)
                /\ Len(req.Body) > 0
          /\ ret.op = "MarshalRequest"
             => /\ ret.err = nil /\ req.pos = 0
                /\ in.v.kind # "nil" => req.Body = ret.m.body /\ ~ret.m.bodyNil
                /\ in.v.kind = "nil" => ret.m.calls = <<>>
          /\ ret.op = "GetBody" => ret.data = req.Body
    /\ (AfterMarshalRequest /\ in.v.kind = "nil") => (ret.err = nil <=> in.urlOK)
    /\ (AfterMarshalRequest /\ ret.err # nil) => ~req.present

\* C10's case: GetBody after req.Body was read to its end, for a request
\* with an escaped body.
C10_Witness ==
    /\ in.op = "MarshalRequest"
    /\ in.v = TestValue(<<9786>>)
    /\ in.contentType = "application/json;charset=us-ascii"
    /\ req.pos = Len(req.Body)
    /\ ret.op = "GetBody"
    /\ ret.data = <<123, 34, 115, 34, 58, 34, 92, 117, 50, 54, 51, 97, 34, 125>>

\* The calls WriteResponse makes on the writer once the body is marshaled.
ClaimWriteCalls ==
    (IF in.v.kind = "nil" THEN <<>> ELSE <<"Set Content-Type", "Set Content-Length">>)
    \o (IF in.statusCode > 0 THEN <<"WriteHeader">> ELSE <<>>)
    \o <<"Write">>

\* C11: WriteResponse acts on the ResponseWriter in a fixed order.  For a
\* non-nil v it sets Content-Type and Content-Length (the length of the body
\* it writes), then calls WriteHeader(statusCode) exactly when statusCode > 0,
\* then writes the body, so that both headers are among the headers sent; for
\* a nil v it sets neither header and writes an empty body; when marshaling
\* fails it returns the error and has made no call on the writer.
C11_WriteOrder ==
    AfterWriteResponse =>
        IF in.v.kind # "nil" /\ ret.err # nil /\ ret.err # errWrite
        THEN w = NewResponseWriter(in.writeOK)
        ELSE /\ w.calls = ClaimWriteCalls
             /\ in.statusCode > 0 => w.Code = in.statusCode
             /\ in.v.kind = "nil" =>
                    /\ w.Body = <<>>
                    /\ w.ContentType = "" /\ w.ContentLength = <<>>
             /\ in.v.kind # "nil" =>
                    /\ w.ContentType =
                           (IF in.contentType = "" THEN DefaultContentType ELSE in.contentType)
                    /\ (in.writeOK \/ in.statusCode > 0) => w.wroteHeader
                    /\ w.wroteHeader => /\ w.sentContentType = w.ContentType
                                        /\ w.sentContentLength = w.ContentLength
                    /\ w.ContentLength # <<>>
                    /\ \A k \in 1..Len(w.ContentLength) : w.ContentLength[k] \in 48..57
                    /\ in.writeOK => ClaimDecimal(w.ContentLength) = Len(w.Body)
                    /\ in.writeOK => Len(w.Body) > 0

\* A value was marshaled into more than nine bytes and written after the
\* headers and the status code 201.
C11_Witness ==
    /\ AfterWriteResponse
    /\ in.v.kind = "testValue" /\ in.statusCode = 201 /\ ret.err = nil
    /\ w.calls = <<"Set Content-Type", "Set Content-Length", "WriteHeader", "Write">>
    /\ Len(w.Body) > 9
    /\ w.sentContentLength = <<48 + (Len(w.Body) \div 10), 48 + (Len(w.Body) % 10)>>

AfterError == ret.op = "Error"

\* The Content-Type of the response of the ResponseError at hand.
ClaimErrorType == ParseMediaType(ret.rerr.Response.ContentType)

ClaimIsText == ClaimErrorType.ok /\ ClaimErrorType.mt \in {"text/plain", "text/json"}

\* The body in UTF-8: as it is for no charset and for UTF-8, and in
\* iso-8859-1 every byte the code point of its value.
ClaimDecoded(body, charset) ==
    IF charset = "" \/ ClaimIsUTF8(charset) THEN body ELSE Utf8(body)

\* The white space of Unicode up to U+00FF, in UTF-8.
ClaimSpaces ==
    {<<9>>, <<10>>, <<11>>, <<12>>, <<13>>, <<32>>, <<194, 133>>, <<194, 160>>}

ClaimHasPrefix(t, x) == Len(x) <= Len(t) /\ SubSeq(t, 1, Len(x)) = x

ClaimHasSuffix(t, x) == Len(x) <= Len(t) /\ SubSeq(t, Len(t) - Len(x) + 1, Len(t)) = x

\* A text without the white space before and after it.
RECURSIVE ClaimTrimmed(_)
ClaimTrimmed(t) ==
    IF \E x \in ClaimSpaces : ClaimHasPrefix(t, x)
    THEN ClaimTrimmed(SubSeq(t, Len(CHOOSE x \in ClaimSpaces : ClaimHasPrefix(t, x)) + 1, Len(t)))
    ELSE IF \E x \in ClaimSpaces : ClaimHasSuffix(t, x)
    THEN ClaimTrimmed(SubSeq(t, 1, Len(t) - Len(CHOOSE x \in ClaimSpaces : ClaimHasSuffix(t, x))))
    ELSE t

\* The status lines of the responses that are no success.
ClaimStatusLine(code) ==
    CASE code = 199 -> <<49, 57, 57, 32, 115, 116, 97, 116, 117, 115, 32, 99, 111, 100, 101, 32, 49, 57, 57>>
      [] code = 300 -> <<51, 48, 48, 32, 77, 117, 108, 116, 105, 112, 108, 101, 32, 67, 104, 111, 105, 99, 101, 115>>
      [] code = 404 -> <<52, 48, 52, 32, 78, 111, 116, 32, 70, 111, 117, 110, 100>>
      [] code = 500 -> <<53, 48, 48, 32, 73, 110, 116, 101, 114, 110, 97, 108, 32, 83, 101, 114, 118, 101, 114, 32, 69, 114, 114, 111, 114>>

\* The message the claim tells of, for the charsets in "decodable".
ClaimMessage(decodable, undecoded) ==
    IF /\ ClaimIsText
       /\ ClaimErrorType.charset \in decodable \cup undecoded
       /\ Len(IF ClaimErrorType.charset \in undecoded THEN ret.rerr.Body
              ELSE ClaimDecoded(ret.rerr.Body, ClaimErrorType.charset)) \in 1..255
    THEN ClaimTrimmed(IF ClaimErrorType.charset \in undecoded THEN ret.rerr.Body
                      ELSE ClaimDecoded(ret.rerr.Body, ClaimErrorType.charset))
    ELSE ClaimStatusLine(ret.rerr.Response.StatusCode)

\* C12, as claimed: Error() returns the body without the white space around
\* it exactly when the Content-Type of the response parses to a media type
\* that starts with "text/", the charset it declares, when non-empty and not
\* UTF-8, is looked up and the body decoded from it without error, and the
\* body so decoded has 1 to 255 bytes; in every other case it returns the
\* status line of the response.
C12_MessageOrStatus ==
    AfterError => ret.msg = ClaimMessage({"", "utf-8", "iso-8859-1"}, {})

\* C12, amended: as claimed, and a charset that is registered but has no
\* encoding is no error: the body is then used as it is, not decoded.
C12_MessageOrStatusUndecoded ==
    AfterError => ret.msg = ClaimMessage({"", "utf-8", "iso-8859-1"}, {"OSD_EBCDIC_DF03_IRV"})

\* The message of a response in iso-8859-1 with the body "£\n" is "£".
C12_Witness ==
    /\ AfterError
    /\ ret.rerr.Response.ContentType = "text/plain;charset=iso-8859-1"
    /\ ret.rerr.Body = <<163, 10>>
    /\ ret.msg = <<194, 163>>

AfterTransform == in.op = "Transform" /\ stream.called

\* The bytes at the input cursor when the last call of Transform returned.
ClaimAtCursor == From(stream.last.src, stream.last.res.nSrc)

\* A byte string that is the start, and not all, of the UTF-8 encoding of
\* a code point.
ClaimIncomplete(p) ==
    /\ p # <<>>
    /\ \E r \in TransformAlphabet : Len(p) < Len(EncodeRune(r)) /\ IsPrefix(p, EncodeRune(r))

\* C13: Transform returns the short-source error only when the bytes at the
\* input cursor are an incomplete prefix of a UTF-8 sequence and more input
\* may still arrive (atEOF false); with a complete code point at the cursor
\* it goes on to emit the escape, so that a call that does not end for want
\* of room in dst ends either so or with all of its input consumed.
C13_ShortSrcOnlyIncomplete ==
    (AfterTransform /\ stream.last.res.err # ErrShortDst)
    => IF stream.last.res.err = ErrShortSrc
       THEN ~stream.last.atEOF /\ ClaimIncomplete(ClaimAtCursor)
       ELSE ClaimAtCursor = <<>>

\* A single call of Transform over the whole input, at end of input, into a
\* dst with room for the escape of every byte.
ClaimSingleCall == Transform(in.e, 12 * Len(stream.src), stream.src, TRUE)

\* C14: for any split of a UTF-8 JSON input into chunks, also inside a code
\* point, the calls of Transform on the chunks (atEOF false on all but the
\* last, the unconsumed bytes carried over) write, one after the other, the
\* output of a single call over the whole input with atEOF true, and end as
\* it ends; the bytes consumed never exceed the bytes supplied, and the
\* input cursor never rests inside a code point.
C14_StreamingEquivalence ==
    AfterTransform =>
        /\ stream.nSrc <= stream.fed
        /\ stream.last.res.nSrc <= Len(stream.last.src)
        /\ Utf8(Runes(SubSeq(stream.src, 1, stream.nSrc))) = SubSeq(stream.src, 1, stream.nSrc)
        /\ Utf8(Runes(From(stream.src, stream.nSrc))) = From(stream.src, stream.nSrc)
        /\ IsPrefix(stream.out, ClaimSingleCall.out)
        /\ StreamDone(stream) =>
               /\ stream.out = ClaimSingleCall.out
               /\ stream.nSrc = ClaimSingleCall.nSrc
               /\ stream.last.res.err = ClaimSingleCall.err

\* {"s":"☺"} has arrived in two chunks, the first ending after the first
\* byte of the code point, and the calls have written {"s":"☺"}.
C14_Witness ==
    /\ AfterTransform
    /\ in.s = <<9786>> /\ in.e = "ascii"
    /\ StreamDone(stream)
    /\ stream.last.carried = <<226>>
    /\ stream.last.src = <<226, 152, 186, 34, 125>>
    /\ stream.last.res.err = nil
    /\ stream.out = ObjOpen \o ClaimEscape(9786) \o ObjClose

\* The code point at the input cursor of the last call cannot be written
\* in the charset and is no U+FFFD.
ClaimEscapeAtCursor ==
    /\ ClaimAtCursor # <<>>
    /\ ~Representable(in.e, Head(Runes(ClaimAtCursor)))
    /\ Head(Runes(ClaimAtCursor)) # RuneError

\* C15: when dst cannot hold the whole escape of the code point at the
\* cursor, Transform returns the short-destination error with nSrc before
\* that code point and with none of the bytes of the escape counted in nDst,
\* and it returns that error for no other reason there; so the output of
\* the calls so far is at any time the text consumed so far with every
\* escape whole and once, and after the retries all of the text.
C15_EscapeAtomic ==
    AfterTransform =>
        /\ stream.out = ClaimEncoding(in.e, Runes(SubSeq(stream.src, 1, stream.nSrc)))
        /\ stream.last.res.out =
               ClaimEncoding(in.e, Runes(SubSeq(stream.last.src, 1, stream.last.res.nSrc)))
        /\ ClaimEscapeAtCursor =>
               /\ stream.last.res.err = ErrShortDst
               /\ Head(Runes(ClaimAtCursor)) \in TransformAlphabet
               /\ stream.last.cap - Len(stream.last.res.out)
                      < Len(ClaimEscape(Head(Runes(ClaimAtCursor))))
        /\ (StreamDone(stream) /\ stream.last.res.err = nil) =>
               stream.out = ClaimEncoding(in.e, Runes(stream.src))

\* All of {"s":"☺"} had arrived and a call had left the code point for want
\* of room for its escape; the call made again has written the escape, and
\* the output is {"s":"☺"} with the escape once.
C15_Witness ==
    /\ AfterTransform
    /\ in.s = <<9786>> /\ in.e = "ascii"
    /\ StreamDone(stream)
    /\ stream.last.carried = <<226, 152, 186, 34, 125>>
    /\ stream.last.src = stream.last.carried
    /\ stream.last.res.err = nil
    /\ stream.out = ObjOpen \o ClaimEscape(9786) \o ObjClose

====
